---- MODULE Spec2Model ----
(***************************************************************************)
(* Model of cmd/pubsub_test/cmd/files.go: the "files" command, which       *)
(* validates its flags, connects to the bus, builds the assembler (index   *)
(* bootstrap), starts the processor and ingestor subscriber goroutines,    *)
(* runs the collector on the main goroutine and waits on a WaitGroup.      *)
(*                                                                         *)
(* Strings that the code inspects (the key path) are sequences of          *)
(* one-character strings; all other strings are opaque values.  The        *)
(* packages the command calls (collector, process, parser, emitter,        *)
(* assembler, graphdb) are modelled at their interface: each call either   *)
(* succeeds or returns an error, chosen nondeterministically.              *)
(***************************************************************************)
EXTENDS Integers, Sequences, FiniteSets, TLC

\* ------------------------------------------------------------------ bounds
\* documents the collector can discover in one run
MaxDocs == 2
\* graph fragments the parser yields for one document
MaxFrags == 2
\* characters of a key path
MaxKeyLen == 4
\* positional arguments on the command line
MaxArgs == 2
\* how often the assembler is constructed against one database
MaxBuilds == 2

\* ------------------------------------------------------------------ values
Nil == "nil"

Chars == {"k", ".", "p", "e", "m"}

RECURSIVE SeqsUpTo(_, _)
\* all sequences over S of length at most n
SeqsUpTo(S, n) ==
    IF n = 0 THEN {<<>>}
    ELSE LET shorter == SeqsUpTo(S, n - 1)
         IN  shorter \cup {Append(s, x) : s \in {t \in shorter : Len(t) = n - 1}, x \in S}

ToSet(s) == {s[i] : i \in 1..Len(s)}

\* strings.HasSuffix(s, suffix)
HasSuffix(s, suffix) ==
    /\ Len(s) >= Len(suffix)
    /\ SubSeq(s, Len(s) - Len(suffix) + 1, Len(s)) = suffix

\* the zero value of the options struct
ZeroOptions ==
    [dbAddr |-> "", user |-> "", pass |-> "", realm |-> "",
     keyPath |-> <<>>, keyID |-> "", path |-> ""]

\* the literal "pem" of the suffix test
PemSuffix == <<"p", "e", "m">>

\* a validateFlags that copies the key ID whether or not a key path is given
validateFlagsAlwaysKeyID(user, pass, dbAddr, realm, keyPath, keyID, args) ==
    LET o1 == [ZeroOptions EXCEPT !.user = user, !.pass = pass,
                                  !.dbAddr = dbAddr, !.realm = realm]
        badKey == keyPath # <<>> /\ ~HasSuffix(keyPath, PemSuffix)
        o2 == IF keyPath # <<>> THEN [o1 EXCEPT !.keyPath = keyPath] ELSE o1
        o3 == [o2 EXCEPT !.keyID = keyID]
    IN  IF badKey
        THEN [opts |-> o1, err |-> "key must be passed in as a pem file"]
        ELSE IF Len(args) # 1
        THEN [opts |-> o3, err |-> "expected positional argument for file_path"]
        ELSE [opts |-> [o3 EXCEPT !.path = args[1]], err |-> Nil]

\* validateFlags: the options built so far and the error ("nil" when none)
validateFlags(user, pass, dbAddr, realm, keyPath, keyID, args) ==
    LET o1 == [ZeroOptions EXCEPT !.user = user, !.pass = pass,
                                  !.dbAddr = dbAddr, !.realm = realm]
        badKey == keyPath # <<>> /\ ~HasSuffix(keyPath, PemSuffix)
        o2 == IF keyPath # <<>> THEN [o1 EXCEPT !.keyPath = keyPath] ELSE o1
        o3 == IF keyPath # <<>> THEN [o2 EXCEPT !.keyID = keyID] ELSE o2
    IN  IF badKey
        THEN [opts |-> o1, err |-> "key must be passed in as a pem file"]
        ELSE IF Len(args) # 1
        THEN [opts |-> o3, err |-> "expected positional argument for file_path"]
        ELSE [opts |-> [o3 EXCEPT !.path = args[1]], err |-> Nil]

\* an index map that lacks the Vulnerability label
indicesWithoutVulnerability ==
    [l \in {"Artifact", "Package", "Metadata", "Attestation"} |->
        CASE l = "Artifact"      -> <<"digest", "name">>
          [] l = "Package"       -> <<"purl", "name">>
          [] l = "Metadata"      -> <<"id">>
          [] l = "Attestation"   -> <<"digest">>]

\* createIndices: label -> attributes to index, in order
indices ==
    [l \in {"Artifact", "Package", "Metadata", "Attestation", "Vulnerability"} |->
        CASE l = "Artifact"      -> <<"digest", "name">>
          [] l = "Package"       -> <<"purl", "name">>
          [] l = "Metadata"      -> <<"id">>
          [] l = "Attestation"   -> <<"digest">>
          [] l = "Vulnerability" -> <<"id">>]

\* every (label, attribute) pair createIndices asks for
IndexPairs ==
    UNION {{<<l, indices[l][i]>> : i \in 1..Len(indices[l])} : l \in DOMAIN indices}

\* ------------------------------------------------------------------ graphs
\* assembler.Graph{Nodes: []GuacNode{}, Edges: []GuacEdge{}}
EmptyGraph == [Nodes |-> <<>>, Edges |-> <<>>]

\* Graph.AppendGraph: g extended by the nodes and edges of h
AppendGraph(g, h) == [Nodes |-> g.Nodes \o h.Nodes, Edges |-> g.Edges \o h.Edges]

RECURSIVE CombineFrom(_, _, _)
\* the range loop of the store function, from element i on
CombineFrom(combined, gs, i) ==
    IF i > Len(gs) THEN combined
    ELSE CombineFrom(AppendGraph(combined, gs[i]), gs, i + 1)

RECURSIVE CombineReversedFrom(_, _, _)
\* a loop that puts each fragment in front of the graph built so far
CombineReversedFrom(combined, gs, i) ==
    IF i > Len(gs) THEN combined
    ELSE CombineReversedFrom(AppendGraph(gs[i], combined), gs, i + 1)

\* a store function that merges the fragments in reverse order
CombinedReversed(gs) == CombineReversedFrom(EmptyGraph, gs, 1)

\* a store function whose loop misses the first fragment
CombinedSkipFirst(gs) == CombineFrom(EmptyGraph, gs, 2)

\* the graph the store function hands to assembler.StoreGraph
Combined(gs) == CombineFrom(EmptyGraph, gs, 1)

\* the fragment shapes a document can parse to; node "a" occurs in both
FragmentShapes ==
    {[Nodes |-> <<"a">>, Edges |-> <<>>],
     [Nodes |-> <<"b", "a">>, Edges |-> <<"e">>]}

\* the batches of fragment shapes the parser can yield for a document
Batches == SeqsUpTo(FragmentShapes, MaxFrags)

Docs == 1..MaxDocs

\* processor: the document tree built from raw document d
DocumentTree(d) == [root |-> d]

\* a fragment shape with its nodes and edges identified within document d
Tagged(f, d) ==
    [Nodes |-> [i \in 1..Len(f.Nodes) |-> <<d, f.Nodes[i]>>],
     Edges |-> [i \in 1..Len(f.Edges) |-> <<d, f.Edges[i]>>]]

\* parser: the fragments of a processed document whose content has shape b
ParseDocumentTree(tree, b) == [i \in 1..Len(b) |-> Tagged(b[i], tree.root)]

\* ------------------------------------------------------------------ state
VARIABLES
    flagsIn,        \* the flag values and positional arguments of this run
    shape,          \* the fragment shapes the documents of this run parse to
    opts,           \* the options validateFlags returned
    pc,             \* position of the main goroutine in filesCmd.Run
    exitCode,       \* the process exit status, -1 while it is running
    exitCause,      \* which statement ended the process
    logged,         \* messages written so far
    calls,          \* how often each collaborator entry point was called
    bus,            \* the jetStream connection
    registered,     \* whether the file collector is registered
    idxDone,        \* (label, attribute) pairs CreateIndexOn has created
    idxErr,         \* the error createIndices returned, Nil if none
    dbIndices,      \* the indices that exist in the graph database
    built,          \* how often getAssembler has returned a store function
    assembler,      \* "uninitialized" or "ready"
    wg,             \* the WaitGroup counter
    proc,           \* the processor goroutine
    procErr,        \* the error processorFunc returned
    procNext,       \* next raw-topic message the processor receives
    procReceived,   \* the raw documents the processor has received, in order
    procSubAt,      \* raw-topic messages published before it subscribed, -1 before
    ing,            \* the ingestor goroutine
    ingErr,         \* the error ingestorFunc returned
    ingNext,        \* next processed-topic message the ingestor receives
    offered,        \* documents the collector has passed to emit
    failedAt,       \* number of the first document whose publish failed, or 0
    handlerRets,    \* what errHandler returned, once called
    collectErr,     \* the terminal error of the enumeration
    collectRet,     \* what Collect returned to Run, "none" before it returns
    rawTopic,       \* messages published on the collected-documents subject
    processedTopic, \* messages published on the processed-documents subject
    delivered,      \* batches handed to ingestorTransportFunc
    storeCalls,     \* graphs handed to assembler.StoreGraph
    storeErrs,      \* the error StoreGraph returned for each of them
    accessed        \* per task, the variables of Run it has read or written
                    \* since the first go statement

vars ==
    <<flagsIn, shape, opts, pc, exitCode, exitCause, logged, calls, bus,
      registered, idxDone, idxErr, dbIndices, built, assembler, wg, proc, procErr, procNext, procReceived,
      procSubAt, ing, ingErr,
      ingNext, offered, failedAt, handlerRets, collectErr, collectRet,
      rawTopic, processedTopic, delivered, storeCalls, storeErrs, accessed>>

\* the variables of createIndices and of the database's index catalogue
idxVars == <<idxDone, idxErr, dbIndices, built>>
\* the variables of the environment and of the setup phase
setupVars == <<flagsIn, shape, opts, bus, registered, idxVars, assembler>>
\* the variables of the processor goroutine
procVars == <<proc, procErr, procNext, procReceived, procSubAt, processedTopic>>
\* the variables of the ingestor goroutine
ingVars == <<ing, ingErr, ingNext, delivered, storeCalls, storeErrs>>
\* the variables of the collector driver
collectVars == <<offered, failedAt, handlerRets, collectErr, collectRet, rawTopic>>
\* the variables that record how the process ended
exitVars == <<exitCode, exitCause>>

CallNames ==
    {"RegisterDocumentCollector", "JetStreamInit", "RecreateStream", "Close",
     "NewGraphClient"}

Called(name) == [calls EXCEPT ![name] = @ + 1]

\* the credentials and the database address of a run
Credentials ==
    {[user |-> "neo4j", pass |-> "s3cr3t", dbAddr |-> "neo4j://db", realm |-> "guac"]}

\* the flag values and arguments a run can be started with
FlagInputs(creds, keyPaths, keyIDs, argLists) ==
    {[cred |-> c, keyPath |-> k, keyID |-> i, args |-> a] :
        c \in creds, k \in keyPaths, i \in keyIDs, a \in argLists}

\* the command lines of the pipeline runs: no key, a .pem key, a .txt key,
\* with one or no positional argument
RunInputs ==
    FlagInputs(Credentials,
               {<<>>, <<".", "p", "e", "m">>, <<"k">>}, {"key1"},
               {<<>>, <<"docs">>})

\* every command line within the bounds
AllInputs ==
    FlagInputs(Credentials, SeqsUpTo(Chars, MaxKeyLen), {"", "key1"},
               SeqsUpTo({"docs", "more"}, MaxArgs))

\* the state before Run starts, for the command lines in inputs
\* the main thread, which drives the collector, and the two goroutines
Tasks == {"main", "processor", "ingestor"}

InitWith(inputs, shapes, dbs) ==
    /\ flagsIn \in inputs
    /\ shape \in shapes
    /\ opts = ZeroOptions
    /\ pc = "validateFlags"
    /\ exitCode = -1
    /\ exitCause = "none"
    /\ logged = {}
    /\ calls = [n \in CallNames |-> 0]
    /\ bus = "unconnected"
    /\ registered = FALSE
    /\ idxDone = {}
    /\ idxErr = Nil
    /\ dbIndices \in dbs
    /\ built = 0
    /\ assembler = "uninitialized"
    /\ wg = 0
    /\ proc = "notStarted"
    /\ procErr = Nil
    /\ procNext = 1
    /\ procReceived = <<>>
    /\ procSubAt = -1
    /\ ing = "notStarted"
    /\ ingErr = Nil
    /\ ingNext = 1
    /\ offered = 0
    /\ failedAt = 0
    /\ handlerRets = <<>>
    /\ collectErr = Nil
    /\ collectRet = "none"
    /\ rawTopic = <<>>
    /\ processedTopic = <<>>
    /\ delivered = <<>>
    /\ storeCalls = <<>>
    /\ storeErrs = <<>>
    /\ accessed = [t \in Tasks |-> {}]

Init == InitWith(RunInputs, Batches, {{}})

\* os.Exit(1) after logging msg: the process ends where it stands
Exit1(cause, msg) ==
    /\ pc' = "exited"
    /\ exitCode' = 1
    /\ exitCause' = cause
    /\ logged' = logged \cup {msg}

\* the process is running (neither exited nor returned from Run)
Running == pc \notin {"exited", "done"}

\* ------------------------------------------------------------------ setup
\* validateFlags applied to the flag values and arguments of this run
FlagsResult ==
    validateFlags(flagsIn.cred.user, flagsIn.cred.pass, flagsIn.cred.dbAddr,
                  flagsIn.cred.realm, flagsIn.keyPath, flagsIn.keyID, flagsIn.args)

\* a Run that prints the validation error and carries on
afterValidatePrintsOnly(err) == "continue"

\* Run, lines 77-81: a validation error ends the process
afterValidate(err) == IF err # Nil THEN "exit" ELSE "continue"

\* Run, lines 69-81: validate the flags, exit 1 on error
ValidateFlags ==
    /\ pc = "validateFlags"
    /\ LET r == FlagsResult
       IN  IF afterValidate(r.err) = "exit"
           THEN /\ Exit1("validateFlags", "unable to validate flags")
                /\ opts' = r.opts
           ELSE /\ pc' = "registerCollector"
                /\ opts' = r.opts
                /\ UNCHANGED <<exitVars, logged>>
    /\ UNCHANGED <<flagsIn, shape, calls, bus, registered, idxVars, assembler, wg,
                   procVars, ingVars, collectVars>>
    /\ UNCHANGED accessed

\* Run, lines 86-91: register the file collector; a failure is only logged
RegisterCollector ==
    /\ pc = "registerCollector"
    /\ calls' = Called("RegisterDocumentCollector")
    /\ \E ok \in BOOLEAN :
        /\ registered' = ok
        /\ logged' = IF ok THEN logged
                     ELSE logged \cup {"unable to register file collector"}
    /\ pc' = "jetStreamInit"
    /\ UNCHANGED <<flagsIn, shape, opts, exitVars, bus, idxVars, assembler, wg,
                   procVars, ingVars, collectVars>>
    /\ UNCHANGED accessed

\* Run, lines 93-100: connect to the bus, exit 1 on error
JetStreamInit ==
    /\ pc = "jetStreamInit"
    /\ calls' = Called("JetStreamInit")
    /\ \E ok \in BOOLEAN :
        IF ok
        THEN /\ bus' = "connected"
             /\ pc' = "recreateStream"
             /\ UNCHANGED <<exitVars, logged>>
        ELSE /\ Exit1("JetStreamInit", "jetStream initialization failed")
             /\ UNCHANGED bus
    /\ UNCHANGED <<flagsIn, shape, opts, registered, idxVars, assembler, wg,
                   procVars, ingVars, collectVars>>
    /\ UNCHANGED accessed

\* a Run that ends the process when the stream cannot be recreated
afterRecreateFatal(err) == IF err # Nil THEN "exit" ELSE "continue"

\* Run, lines 103-106: an error of RecreateStream is logged, nothing else
afterRecreate(err) == "continue"

\* Run, lines 101-107: recreate the stream, which drops every message
\* queued on it (a failure is only logged), and defer the Close of the
\* connection
RecreateStream ==
    /\ pc = "recreateStream"
    /\ calls' = Called("RecreateStream")
    /\ \E err \in {Nil, "recreate"} :
        /\ rawTopic' = IF err = Nil THEN <<>> ELSE rawTopic
        /\ processedTopic' = IF err = Nil THEN <<>> ELSE processedTopic
        /\ IF afterRecreate(err) = "exit"
           THEN Exit1("RecreateStream", "unexpected error recreating jetstream")
           ELSE /\ logged' = IF err = Nil THEN logged
                             ELSE logged \cup {"unexpected error recreating jetstream"}
                /\ pc' = "getCollectorPublish"
                /\ UNCHANGED exitVars
    /\ UNCHANGED <<setupVars, wg, proc, procErr, procNext, procReceived, procSubAt,
                   ingVars, offered, failedAt, handlerRets, collectErr, collectRet>>
    /\ UNCHANGED accessed

\* Run, lines 110-114, and getCollectorPublish: never returns an error
GetCollectorPublish ==
    /\ pc = "getCollectorPublish"
    /\ pc' = "getAssembler"
    /\ UNCHANGED <<setupVars, exitVars, logged, calls, wg, procVars, ingVars,
                   collectVars>>
    /\ UNCHANGED accessed

\* the labels createIndices has begun but not finished
IndexInProgress ==
    {l \in DOMAIN indices :
        /\ \E i \in 1..Len(indices[l]) : <<l, indices[l][i]>> \in idxDone
        /\ \E i \in 1..Len(indices[l]) : <<l, indices[l][i]>> \notin idxDone}

\* the labels createIndices has not begun
IndexUnstarted ==
    {l \in DOMAIN indices :
        \A i \in 1..Len(indices[l]) : <<l, indices[l][i]>> \notin idxDone}

\* the pairs the next CreateIndexOn call can be for: the map is ranged over
\* in any order, the attributes of a label in slice order
NextIndexPairs ==
    IF IndexInProgress # {}
    THEN {<<l, indices[l][CHOOSE i \in 1..Len(indices[l]) :
                    /\ <<l, indices[l][i]>> \notin idxDone
                    /\ \A j \in 1..(i - 1) : <<l, indices[l][j]>> \in idxDone]>> :
            l \in IndexInProgress}
    ELSE {<<l, indices[l][1]>> : l \in {u \in IndexUnstarted : Len(indices[u]) > 0}}

\* Run, lines 116-120, and getAssembler, lines 251-260: open the database
\* client, exit 1 on error
GetAssembler ==
    /\ pc = "getAssembler"
    /\ calls' = Called("NewGraphClient")
    /\ \E ok \in BOOLEAN :
        IF ok
        THEN /\ pc' = "createIndices"
             /\ UNCHANGED <<exitVars, logged>>
        ELSE Exit1("getAssembler", "error")
    /\ UNCHANGED <<setupVars, wg, procVars, ingVars, collectVars>>
    /\ UNCHANGED accessed

\* an assembler.CreateIndexOn that refuses an index that already exists
CreateIndexErrOnDuplicate(db, pair, fault) ==
    IF fault THEN "unavailable" ELSE IF pair \in db THEN "exists" ELSE Nil

\* the error of assembler.CreateIndexOn for one pair: an existing index is
\* not an error, a database fault is
CreateIndexErr(db, pair, fault) ==
    IF fault THEN "unavailable" ELSE Nil

\* a createIndices that goes on to the next index after a failure
createIndicesBestEffort(err) == "continue"

\* createIndices, lines 294-298: return the first error, else go on
createIndicesOn(err) ==
    IF err # Nil THEN "return" ELSE "continue"

\* createIndices, lines 292-299: one CreateIndexOn call; its error is
\* returned through getAssembler (lines 262-265) to Run, which exits 1
\* (lines 117-120)
CreateIndexOn ==
    /\ pc = "createIndices"
    /\ \E pair \in NextIndexPairs, fault \in BOOLEAN :
        LET err == CreateIndexErr(dbIndices, pair, fault)
        IN  /\ dbIndices' = IF err = Nil THEN dbIndices \cup {pair} ELSE dbIndices
            /\ idxErr' = IF err # Nil THEN err ELSE idxErr
            /\ IF createIndicesOn(err) = "continue"
               THEN /\ idxDone' = idxDone \cup {pair}
                    /\ UNCHANGED <<pc, exitVars, logged>>
               ELSE /\ Exit1("getAssembler", "error")
                    /\ UNCHANGED idxDone
    /\ UNCHANGED <<flagsIn, shape, opts, calls, bus, registered, assembler, wg,
                   built, procVars, ingVars, collectVars>>
    /\ UNCHANGED accessed

\* createIndices, line 301, and getAssembler, lines 267-280: every index is
\* created, the store function is returned
AssemblerReady ==
    /\ pc = "createIndices"
    /\ NextIndexPairs = {}
    /\ assembler' = "ready"
    /\ built' = built + 1
    /\ pc' = "getProcessor"
    /\ UNCHANGED <<flagsIn, shape, opts, bus, registered, idxDone, idxErr,
                   dbIndices, exitVars,
                   logged, calls, wg, procVars, ingVars, collectVars>>
    /\ UNCHANGED accessed

\* Run, lines 142-146, and getProcessor: never returns an error
GetProcessor ==
    /\ pc = "getProcessor"
    /\ pc' = "getIngestor"
    /\ UNCHANGED <<setupVars, exitVars, logged, calls, wg, procVars, ingVars,
                   collectVars>>
    /\ UNCHANGED accessed

\* a Run that starts to collect before the ingestor goroutine is started
afterLaunchCollectsEarly(stmt) ==
    IF stmt = "getIngestor" THEN "goProcessor" ELSE "collect"

\* Run, lines 174-193: the order of the go statements and of Collect
afterLaunch(stmt) ==
    IF stmt = "getIngestor" THEN "goProcessor"
    ELSE IF stmt = "goProcessor" THEN "goIngestor"
    ELSE "collect"

\* Run, lines 147-151, and getIngestor: never returns an error
GetIngestor ==
    /\ pc = "getIngestor"
    /\ pc' = afterLaunch("getIngestor")
    /\ UNCHANGED <<setupVars, exitVars, logged, calls, wg, procVars, ingVars,
                   collectVars>>
    /\ UNCHANGED accessed

\* ------------------------------------------------------------------ accesses
\* task t has made the accesses accs: pairs of a variable and "r" (read),
\* "w" (write) or "sync" (a method of sync.WaitGroup). A variable declared
\* inside a closure is named after the closure.
Touch(acc, t, accs) == [acc EXCEPT ![t] = @ \cup accs]

\* a processorTransportFunc that assigns the err of Run with = where the
\* code declares its own with :=
processorTransportFuncSharesErr(marshalled) ==
    {<<"err", "w">>, <<"err", "r">>} \cup
    (IF marshalled THEN {<<"ctx", "r">>} ELSE {})

\* processorTransportFunc, lines 122-132: err is declared by := in line
\* 123; ctx is read by the Publish of line 127
processorTransportFuncAccess(marshalled) ==
    {<<"processorTransportFunc.err", "w">>, <<"processorTransportFunc.err", "r">>} \cup
    (IF marshalled THEN {<<"ctx", "r">>} ELSE {})

\* ingestorTransportFunc, lines 134-140: err is declared by := in line 135
ingestorTransportFuncAccess ==
    {<<"assemblerFunc", "r">>,
     <<"ingestorTransportFunc.err", "w">>, <<"ingestorTransportFunc.err", "r">>}

\* the processor goroutine, lines 175-181, once processorFunc has returned
goProcessorAccess(err) ==
    {<<"goProcessor.err", "w">>, <<"goProcessor.err", "r">>, <<"wg", "sync">>} \cup
    (IF err # Nil THEN {<<"logger", "r">>} ELSE {})

\* the ingestor goroutine, lines 185-190, once ingestorFunc has returned
goIngestorAccess(err) ==
    {<<"goIngestor.err", "w">>, <<"goIngestor.err", "r">>, <<"wg", "sync">>} \cup
    (IF err # Nil THEN {<<"logger", "r">>} ELSE {})

\* emit, lines 154-161: line 155 assigns the err of Run
emitAccess(publishErr) ==
    {<<"collectorPubFunc", "r">>, <<"err", "w">>, <<"err", "r">>} \cup
    (IF publishErr # Nil THEN {<<"logger", "r">>} ELSE {})

\* errHandler, lines 164-171
errHandlerAccess == {<<"logger", "r">>}

\* Run, lines 193-195: err is declared by the if statement
collectReturnAccess(ret) ==
    {<<"Run.if.err", "w">>, <<"Run.if.err", "r">>} \cup
    (IF ret # Nil THEN {<<"logger", "r">>} ELSE {})

\* Run, lines 174-182: wg.Add(1) and start the processor goroutine
GoProcessor ==
    /\ pc = "goProcessor"
    /\ wg' = wg + 1
    /\ proc' = "started"
    /\ pc' = afterLaunch("goProcessor")
    /\ UNCHANGED <<setupVars, exitVars, logged, calls, procErr, procNext,
                   procReceived, procSubAt, processedTopic, ingVars, collectVars>>
    /\ accessed' = Touch(accessed, "main", {<<"wg", "sync">>})

\* Run, lines 184-191: wg.Add(1) and start the ingestor goroutine
GoIngestor ==
    /\ pc = "goIngestor"
    /\ wg' = wg + 1
    /\ ing' = "running"
    /\ pc' = afterLaunch("goIngestor")
    /\ UNCHANGED <<setupVars, exitVars, logged, calls, procVars, ingErr, ingNext,
                   delivered, storeCalls, storeErrs, collectVars>>
    /\ accessed' = Touch(Touch(accessed, "main", {<<"wg", "sync">>}),
                          "ingestor", {<<"ingestorFunc", "r">>})

\* ------------------------------------------------------------------ processor
\* json.Marshal of a document tree, and the parser's json.Unmarshal
Marshal(tree) == <<"json", tree>>
Unmarshal(bytes) == bytes[2]

\* a transport function that drops the error of the publish
processorTransportFuncDropsPublishError(marshalErr, publishErr) ==
    IF marshalErr # Nil THEN "failed marshal of document" ELSE Nil

\* processorTransportFunc, lines 122-132: the error it returns
processorTransportFunc(marshalErr, publishErr) ==
    IF marshalErr # Nil THEN "failed marshal of document" ELSE publishErr

\* a goroutine body that ends the process when its stage fails
StageErrorExits(msg) ==
    /\ Exit1("stage", msg)
    /\ UNCHANGED wg

\* the goroutine bodies, lines 176-182 and 185-191, once the stage function
\* has returned an error: log it, then the deferred wg.Done()
StageErrorLogged(msg) ==
    /\ logged' = logged \cup {msg}
    /\ wg' = wg - 1
    /\ UNCHANGED <<pc, exitVars>>

\* a subscription that starts after the messages already on the subject
subscribeStartLatest(published) == published + 1

\* the durable subscription of the bus: delivery starts with the first
\* message of the stream, however many were published before
subscribeStart(published) == 1

\* process.Subscribe: the processor goroutine, once scheduled, subscribes
\* to the collected-documents subject
ProcessorSubscribe ==
    /\ Running
    /\ proc = "started"
    /\ proc' = "running"
    /\ procSubAt' = Len(rawTopic)
    /\ procNext' = subscribeStart(Len(rawTopic))
    /\ UNCHANGED <<setupVars, exitVars, pc, logged, calls, wg, procErr,
                   procReceived, processedTopic, ingVars, collectVars>>
    /\ accessed' = Touch(accessed, "processor", {<<"processorFunc", "r">>})

\* process.Subscribe with processorTransportFunc: one raw document is
\* received, its tree is built, marshalled and published; an error ends
\* the loop and the goroutine
ProcessorReceive ==
    /\ Running
    /\ proc = "running"
    /\ procNext <= Len(rawTopic)
    /\ procNext' = procNext + 1
    /\ procReceived' = Append(procReceived, rawTopic[procNext])
    /\ \E marshalErr \in {Nil, "marshal"}, publishErr \in {Nil, "publish"} :
        LET err == processorTransportFunc(marshalErr, publishErr)
        IN  /\ accessed' = Touch(accessed, "processor",
                      processorTransportFuncAccess(marshalErr = Nil) \cup
                      (IF err # Nil THEN goProcessorAccess(err) ELSE {}))
            /\ processedTopic' =
                  IF marshalErr = Nil /\ publishErr = Nil
                  THEN Append(processedTopic, Marshal(DocumentTree(rawTopic[procNext])))
                  ELSE processedTopic
            /\ IF err = Nil
               THEN UNCHANGED <<proc, procErr, pc, exitVars, logged, wg>>
               ELSE /\ proc' = "returned"
                    /\ procErr' = err
                    /\ StageErrorLogged("processor ended with error")
    /\ UNCHANGED <<setupVars, calls, procSubAt, ingVars, collectVars>>

\* process.Subscribe: the subscription fails or is disconnected
ProcessorDisconnect ==
    /\ Running
    /\ proc \in {"started", "running"}
    /\ proc' = "returned"
    /\ procErr' = "subscribe"
    /\ StageErrorLogged("processor ended with error")
    /\ UNCHANGED <<setupVars, calls, procNext, procReceived, procSubAt,
                   processedTopic, ingVars, collectVars>>
    /\ accessed' = Touch(accessed, "processor",
                          {<<"processorFunc", "r">>} \cup goProcessorAccess("subscribe"))

\* ------------------------------------------------------------------ ingestor
\* a store function that leaves the first fragment out of the merged graph
storeFuncSkipFirst(gs, storeErr) == [graph |-> CombinedSkipFirst(gs), err |-> storeErr]

\* the store function getAssembler returns, lines 267-280: the graph it
\* hands to StoreGraph and the error it returns
storeFunc(gs, storeErr) == [graph |-> Combined(gs), err |-> storeErr]

\* a transport function that drops the error of the store function
ingestorTransportFuncDropsError(gs, storeErr) == Nil

\* ingestorTransportFunc, lines 134-140: the error it returns
ingestorTransportFunc(gs, storeErr) == storeFunc(gs, storeErr).err

\* parser.Subscribe with ingestorTransportFunc: one processed document is
\* received and parsed, its fragments are delivered to the store function;
\* an error ends the loop and the goroutine
IngestorReceive ==
    /\ Running
    /\ ing = "running"
    /\ ingNext <= Len(processedTopic)
    /\ ingNext' = ingNext + 1
    /\ \E parseErr \in {Nil, "parse"}, storeErr \in {Nil, "store"} :
        LET gs == ParseDocumentTree(Unmarshal(processedTopic[ingNext]), shape)
            err == IF parseErr # Nil THEN parseErr
                   ELSE ingestorTransportFunc(gs, storeErr)
        IN  /\ accessed' = Touch(accessed, "ingestor",
                      (IF parseErr = Nil THEN ingestorTransportFuncAccess ELSE {}) \cup
                      (IF err # Nil THEN goIngestorAccess(err) ELSE {}))
            /\ IF parseErr = Nil
               THEN /\ delivered' = Append(delivered, gs)
                    /\ storeCalls' = Append(storeCalls, storeFunc(gs, storeErr).graph)
                    /\ storeErrs' = Append(storeErrs, storeErr)
               ELSE UNCHANGED <<delivered, storeCalls, storeErrs>>
            /\ IF err = Nil
               THEN UNCHANGED <<ing, ingErr, pc, exitVars, logged, wg>>
               ELSE /\ ing' = "returned"
                    /\ ingErr' = err
                    /\ StageErrorLogged("parser ended with error")
    /\ UNCHANGED <<setupVars, calls, procVars, collectVars>>

\* parser.Subscribe: the subscription fails or is disconnected
IngestorDisconnect ==
    /\ Running
    /\ ing = "running"
    /\ ing' = "returned"
    /\ ingErr' = "subscribe"
    /\ StageErrorLogged("parser ended with error")
    /\ UNCHANGED <<setupVars, calls, ingNext, delivered, storeCalls, storeErrs,
                   procVars, collectVars>>
    /\ accessed' = Touch(accessed, "ingestor", goIngestorAccess("subscribe"))

\* ------------------------------------------------------------------ collector
\* an emit that logs a publish failure and carries on
emitLogsOnly(publishErr) ==
    [exit |-> FALSE, ret |-> Nil,
     log |-> IF publishErr # Nil THEN {"collector ended with error"} ELSE {}]

\* emit, lines 154-161: publish the document; on failure log and os.Exit(1),
\* otherwise return nil
emit(publishErr) ==
    IF publishErr # Nil
    THEN [exit |-> TRUE, ret |-> Nil, log |-> {"collector ended with error"}]
    ELSE [exit |-> FALSE, ret |-> Nil, log |-> {}]

\* errHandler, lines 164-171: whether the collector ended gracefully
errHandler(err) ==
    IF err = Nil
    THEN [ret |-> TRUE, log |-> {"collector ended gracefully"}]
    ELSE [ret |-> FALSE, log |-> {"collector ended with error"}]

\* collector.Collect: what it returns once the handler has judged the
\* terminal error: nil after a graceful end, else nil or the error
CollectResults(err, graceful) == IF graceful THEN {Nil} ELSE {Nil, err}

\* collector.Collect calling emit for the next document; an error returned
\* by emit aborts the enumeration and goes to the handler
CollectEmit ==
    /\ pc = "collect"
    /\ registered
    /\ offered < MaxDocs
    /\ offered' = offered + 1
    /\ \E publishErr \in {Nil, "publish"} :
        LET r == emit(publishErr)
        IN  /\ accessed' = Touch(accessed, "main",
                      emitAccess(publishErr) \cup
                      (IF ~r.exit /\ r.ret # Nil THEN errHandlerAccess ELSE {}))
            /\ rawTopic' = IF publishErr = Nil
                           THEN Append(rawTopic, offered + 1) ELSE rawTopic
            /\ failedAt' = IF publishErr # Nil /\ failedAt = 0
                           THEN offered + 1 ELSE failedAt
            /\ IF r.exit
               THEN /\ Exit1("emit", "collector ended with error")
                    /\ UNCHANGED <<handlerRets, collectErr, collectRet>>
               ELSE IF r.ret # Nil
               THEN /\ collectErr' = r.ret
                    /\ handlerRets' = Append(handlerRets, errHandler(r.ret).ret)
                    /\ logged' = logged \cup r.log \cup errHandler(r.ret).log
                    /\ pc' = "collectReturn"
                    /\ UNCHANGED <<exitVars, collectRet>>
               ELSE /\ logged' = logged \cup r.log
                    /\ UNCHANGED <<pc, exitVars, handlerRets, collectErr, collectRet>>
    /\ UNCHANGED <<setupVars, calls, wg, procVars, ingVars>>

\* collector.Collect: the enumeration is over, with or without an error of
\* the collector, and errHandler is called with it
CollectDone ==
    /\ pc = "collect"
    /\ \E err \in {Nil, "collector"} :
        /\ collectErr' = err
        /\ handlerRets' = Append(handlerRets, errHandler(err).ret)
        /\ logged' = logged \cup errHandler(err).log
    /\ pc' = "collectReturn"
    /\ UNCHANGED <<setupVars, exitVars, calls, wg, procVars, ingVars, offered,
                   failedAt, collectRet, rawTopic>>
    /\ accessed' = Touch(accessed, "main", errHandlerAccess)

\* a Run that treats every return of Collect as fatal
afterCollectAlwaysFatal(ret) == "fatal"

\* Run, lines 193-197: logger.Fatal on an error of Collect, else wg.Wait()
afterCollect(ret) == IF ret # Nil THEN "fatal" ELSE "wait"

\* collector.Collect returns to Run
CollectReturn ==
    /\ pc = "collectReturn"
    /\ \E ret \in CollectResults(collectErr, handlerRets[Len(handlerRets)]) :
        /\ collectRet' = ret
        /\ accessed' = Touch(accessed, "main", collectReturnAccess(ret))
        /\ IF afterCollect(ret) = "fatal"
           THEN Exit1("Collect", "fatal")
           ELSE /\ pc' = "wait"
                /\ UNCHANGED <<exitVars, logged>>
    /\ UNCHANGED <<setupVars, calls, wg, procVars, ingVars, offered, failedAt,
                   handlerRets, collectErr, rawTopic>>

\* a Wait that returns while one goroutine is still running
waitReturnsEarly(n) == n <= 1

\* sync.WaitGroup.Wait returns when the counter is zero
waitReturns(n) == n = 0

\* Run, lines 197-198 and 107: Wait returns, Run returns and the deferred
\* jetStream.Close() runs; the process ends with status 0
WaitDone ==
    /\ pc = "wait"
    /\ waitReturns(wg)
    /\ pc' = "done"
    /\ bus' = "closed"
    /\ calls' = Called("Close")
    /\ exitCode' = 0
    /\ exitCause' = "return"
    /\ UNCHANGED <<flagsIn, shape, opts, registered, idxVars, assembler, logged,
                   wg, procVars, ingVars, collectVars>>
    /\ accessed' = Touch(accessed, "main", {<<"wg", "sync">>})

\* ------------------------------------------------------------------ runs
Next ==
    \/ ValidateFlags
    \/ RegisterCollector
    \/ JetStreamInit
    \/ RecreateStream
    \/ GetCollectorPublish
    \/ GetAssembler
    \/ CreateIndexOn
    \/ AssemblerReady
    \/ GetProcessor
    \/ GetIngestor
    \/ GoProcessor
    \/ GoIngestor
    \/ ProcessorSubscribe
    \/ ProcessorReceive
    \/ ProcessorDisconnect
    \/ IngestorReceive
    \/ IngestorDisconnect
    \/ CollectEmit
    \/ CollectDone
    \/ CollectReturn
    \/ WaitDone

\* the runs of the files command
Spec == Init /\ [][Next]_vars

\* the runs in which the scheduler lets the processor goroutine run
\* whenever it can subscribe or a message is pending for it
SpecLive ==
    Spec /\ WF_vars(ProcessorSubscribe) /\ WF_vars(ProcessorReceive)

\* the runs in which, besides, the ingestor goroutine runs whenever a message
\* is pending for it and wg.Wait returns once the counter is zero
SpecFair ==
    SpecLive /\ WF_vars(IngestorReceive) /\ WF_vars(WaitDone)

\* validateFlags alone, over every command line within the bounds
InitFlags == InitWith(AllInputs, {<<>>}, {{}})

NextFlags == ValidateFlags

SpecFlags == InitFlags /\ [][NextFlags]_vars

\* getAssembler is called again on the database the last call left behind:
\* createIndices ranges over the whole map once more
Reconstruct ==
    /\ pc = "getProcessor"
    /\ built < MaxBuilds
    /\ pc' = "getAssembler"
    /\ idxDone' = {}
    /\ assembler' = "uninitialized"
    /\ UNCHANGED <<flagsIn, shape, opts, bus, registered, idxErr, dbIndices,
                   built, exitVars, logged, calls, wg, procVars, ingVars,
                   collectVars>>
    /\ UNCHANGED accessed

\* the setup phase against a database that already has every index, the
\* assembler being constructed up to MaxBuilds times
InitBootstrap == InitWith(RunInputs, {<<>>}, {IndexPairs})

NextBootstrap ==
    \/ ValidateFlags
    \/ RegisterCollector
    \/ JetStreamInit
    \/ RecreateStream
    \/ GetCollectorPublish
    \/ GetAssembler
    \/ CreateIndexOn
    \/ AssemblerReady
    \/ Reconstruct

SpecBootstrap == InitBootstrap /\ [][NextBootstrap]_vars

\* ------------------------------------------------------------------ properties
\* the enumeration has ended and errHandler has judged it
EnumerationEnded == handlerRets # <<>>

\* C1: Run returns (the pipeline run completes) only after the collector
\* driver has returned and both the processor loop and the ingestor loop
\* have returned; the exits through os.Exit are not completions.
C1_DrainBarrier ==
    pc = "done" =>
        /\ EnumerationEnded
        /\ collectRet = Nil
        /\ proc = "returned"
        /\ ing = "returned"
        /\ wg = 0

\* a completed run in which documents went through every stage
C1_Witness == pc = "done" /\ offered >= 1 /\ Len(storeCalls) >= 1

\* C2: if the publish of the N-th document fails, exactly N documents have
\* been offered to the bus, the N-1 before it are on the raw topic, and the
\* process has ended, so that document N+1 is never offered.
C2_FatalPublishAbort ==
    failedAt # 0 =>
        /\ offered = failedAt
        /\ Len(rawTopic) = failedAt - 1
        /\ pc = "exited"
        /\ exitCode = 1

\* the publish of the second document failed
C2_Witness == failedAt = 2

\* the collector emitted exactly two documents and ended gracefully, no
\* stage failed, and both documents have gone through every stage
TwoDocumentsDrained ==
    /\ offered = 2
    /\ failedAt = 0
    /\ handlerRets = <<TRUE>>
    /\ procErr = Nil
    /\ ingErr = Nil
    /\ procNext = 3
    /\ ingNext = 3

\* the nodes (edges) of the fragments document d parses to, as sets
FragmentNodes(d) ==
    UNION {ToSet(Tagged(shape[i], d).Nodes) : i \in 1..Len(shape)}
FragmentEdges(d) ==
    UNION {ToSet(Tagged(shape[i], d).Edges) : i \in 1..Len(shape)}

\* C3 as stated: two documents give two raw messages, two processed
\* messages and exactly one store call, holding the fragments of both.
C3_OneStoreCall ==
    TwoDocumentsDrained =>
        /\ Len(rawTopic) = 2
        /\ Len(processedTopic) = 2
        /\ Len(storeCalls) = 1
        /\ ToSet(storeCalls[1].Nodes) = FragmentNodes(1) \cup FragmentNodes(2)
        /\ ToSet(storeCalls[1].Edges) = FragmentEdges(1) \cup FragmentEdges(2)

\* C3 amended: two documents give two raw messages, two processed messages
\* and two store calls, the k-th holding exactly the fragments of the k-th
\* document, so that the two merged graphs together hold the fragments of
\* both documents.
C3_StoreCallPerDocument ==
    TwoDocumentsDrained =>
        /\ Len(rawTopic) = 2
        /\ Len(processedTopic) = 2
        /\ Len(storeCalls) = 2
        /\ \A k \in 1..2 :
            /\ ToSet(storeCalls[k].Nodes) = FragmentNodes(k)
            /\ ToSet(storeCalls[k].Edges) = FragmentEdges(k)
        /\ ToSet(storeCalls[1].Nodes) \cup ToSet(storeCalls[2].Nodes)
             = FragmentNodes(1) \cup FragmentNodes(2)

\* two documents of two fragments each have gone through every stage
C3_Witness == TwoDocumentsDrained /\ Len(shape) >= 2

\* the seven indices the claim C4 lists
SevenIndices ==
    {<<"Artifact", "digest">>, <<"Artifact", "name">>, <<"Package", "purl">>,
     <<"Package", "name">>, <<"Metadata", "id">>, <<"Attestation", "digest">>,
     <<"Vulnerability", "id">>}

\* C4: whenever a store call has been issued, all seven indices have been
\* created and the assembler is ready; the assembler only ever moves from
\* uninitialized to ready, and once ready it stays ready.
C4_IndicesBeforeStore ==
    /\ [](Len(storeCalls) > 0 => SevenIndices \subseteq idxDone /\ assembler = "ready")
    /\ [][assembler' # assembler =>
            assembler = "uninitialized" /\ assembler' = "ready"]_vars
    /\ [][assembler = "ready" => assembler' = "ready"]_vars

\* a store call has been issued
C4_Witness == Len(storeCalls) > 0 /\ assembler = "ready"

\* the process has ended, by returning from Run or by os.Exit
Ended == pc \in {"done", "exited"}

\* C5: once the bus has been initialised, every way the process ends has
\* executed close() on the connection first.
C5_BusReleased ==
    (Ended /\ calls["JetStreamInit"] > 0 /\ exitCause # "JetStreamInit") =>
        bus = "closed"

\* C6 as stated: after errHandler has returned false for a collector error
\* the process is not terminated and the run goes on to wait for the loops.
C6_NonGracefulNotFatal ==
    (handlerRets = <<FALSE>> /\ collectRet # "none") =>
        /\ exitCode # 1
        /\ pc \in {"wait", "done"}

\* C6 amended: errHandler logs the collector error and returns false
\* without ending the process; what follows is decided by what Collect
\* returns to Run: on nil the run goes on to wait for the loops, on the
\* error Run ends the process with logger.Fatal and exit status 1.
C6_FatalOnlyIfCollectReturnsError ==
    handlerRets = <<FALSE>> =>
        /\ "collector ended with error" \in logged
        /\ collectRet = "none" => pc = "collectReturn" /\ exitCode = -1
        /\ collectRet = Nil => pc \in {"wait", "done"}
        /\ collectRet \notin {"none", Nil} =>
              pc = "exited" /\ exitCause = "Collect" /\ exitCode = 1

\* errHandler returned false and the run is waiting for the loops
C6_Witness == handlerRets = <<FALSE>> /\ collectErr = "collector" /\ pc = "wait"

\* a stage loop has returned an error
StageFailed == procErr # Nil \/ ingErr # Nil

\* C7 as stated: after a stage loop has returned an error the process does
\* not end until the other loop and the collector have returned.
C7_NoExitBeforeSiblings ==
    (StageFailed /\ Ended) =>
        /\ proc = "returned"
        /\ ing = "returned"
        /\ EnumerationEnded
        /\ collectRet # "none"

\* C7 amended: when a stage loop returns an error, that step logs it and
\* changes neither the sibling loop nor the collector nor the process
\* status; afterwards Run returns only once both loops and the collector
\* have returned, and the process can end earlier only through the fatal
\* paths of the collector (a publish failure in emit, an error returned
\* by Collect).
C7_StageErrorNotFatal ==
    /\ [][(proc = "running" /\ proc' = "returned") =>
            /\ "processor ended with error" \in logged'
            /\ <<pc, exitCode, ing, ingNext, offered, rawTopic>>'
                 = <<pc, exitCode, ing, ingNext, offered, rawTopic>>]_vars
    /\ [][(ing = "running" /\ ing' = "returned") =>
            /\ "parser ended with error" \in logged'
            /\ <<pc, exitCode, proc, procNext, offered, rawTopic>>'
                 = <<pc, exitCode, proc, procNext, offered, rawTopic>>]_vars
    /\ []((StageFailed /\ pc = "done") =>
            proc = "returned" /\ ing = "returned" /\ collectRet = Nil)
    /\ []((StageFailed /\ pc = "exited") => exitCause \in {"emit", "Collect"})

\* the processor has failed on the second document; the collector has
\* returned since and the ingestor is still running and has stored
C7_Witness ==
    /\ procErr # Nil
    /\ procNext = 3
    /\ ing = "running"
    /\ pc = "wait"
    /\ Len(storeCalls) >= 1

\* the suffix the claim C8 asks for
DotPem == <<".", "p", "e", "m">>

\* C8: a non-empty key path is accepted if and only if it ends with ".pem".
C8_KeyPathValidation ==
    (pc # "validateFlags" /\ flagsIn.keyPath # <<>> /\ Len(flagsIn.args) = 1) =>
        (pc = "exited" <=> ~HasSuffix(flagsIn.keyPath, DotPem))

\* validateFlags fails on the command line of this run
FlagsRejected == FlagsResult.err # Nil

\* C9: whenever validateFlags fails the process exits with status 1 and on
\* that run no bus connection is attempted, no collector is registered, no
\* index is created and no stage is started.
C9_ConfigurationErrorsFirst ==
    (pc # "validateFlags" /\ FlagsRejected) =>
        /\ pc = "exited"
        /\ exitCode = 1
        /\ exitCause = "validateFlags"
        /\ \A n \in CallNames : calls[n] = 0
        /\ bus = "unconnected"
        /\ ~registered
        /\ idxDone = {}
        /\ assembler = "uninitialized"
        /\ proc = "notStarted" /\ ing = "notStarted" /\ wg = 0
        /\ offered = 0 /\ rawTopic = <<>> /\ storeCalls = <<>>

\* a run with a key that is no pem file has ended
C9_Witness ==
    /\ pc = "exited"
    /\ flagsIn.keyPath = <<"k">>
    /\ exitCause = "validateFlags"

\* the orderings of the batch gs
Orderings(gs) ==
    {[i \in 1..Len(gs) |-> gs[p[i]]] : p \in Permutations(1..Len(gs))}

\* C10: for every batch delivered to the store function and every ordering
\* of that batch, the graph the store function hands to the database client
\* has the same nodes and the same edges, as sets, as the graph it handed
\* over for the batch as delivered.
C10_MergeOrderInsensitive ==
    \A k \in 1..Len(delivered) :
        Len(storeCalls) >= k /\
        \A gs \in Orderings(delivered[k]) :
            /\ ToSet(storeFunc(gs, Nil).graph.Nodes) = ToSet(storeCalls[k].Nodes)
            /\ ToSet(storeFunc(gs, Nil).graph.Edges) = ToSet(storeCalls[k].Edges)

\* a batch of two different fragments has been stored
C10_Witness ==
    \E k \in 1..Len(delivered) :
        /\ Len(delivered[k]) >= 2
        /\ delivered[k][1] # delivered[k][2]
        /\ Len(storeCalls) >= k

RECURSIVE ConcatNodes(_)
\* the node sequences of the fragments of gs, one after the other
ConcatNodes(gs) ==
    IF gs = <<>> THEN <<>> ELSE Head(gs).Nodes \o ConcatNodes(Tail(gs))

RECURSIVE ConcatEdges(_)
\* the edge sequences of the fragments of gs, one after the other
ConcatEdges(gs) ==
    IF gs = <<>> THEN <<>> ELSE Head(gs).Edges \o ConcatEdges(Tail(gs))

\* C11: every batch handed to the store function, the empty batch
\* included, gives exactly one store call, whose node sequence is the
\* concatenation of the fragments' nodes in input order and whose edge
\* sequence is the concatenation of their edges in input order, with
\* nothing dropped and no duplicate removed.
C11_MergeIsConcatenation ==
    /\ Len(storeCalls) = Len(delivered)
    /\ \A k \in 1..Len(delivered) :
        /\ storeCalls[k].Nodes = ConcatNodes(delivered[k])
        /\ storeCalls[k].Edges = ConcatEdges(delivered[k])

\* a batch of two different fragments that share a node has been stored,
\* and the shared node occurs twice in the merged graph
C11_Witness ==
    \E k \in 1..Len(storeCalls) :
        /\ Len(delivered[k]) = 2
        /\ delivered[k][1] # delivered[k][2]
        /\ Len(storeCalls[k].Nodes) = 3
        /\ Cardinality(ToSet(storeCalls[k].Nodes)) = 2

\* the key path ends with the characters p, e, m
EndsWithPem(k) ==
    /\ Len(k) >= 3
    /\ k[Len(k) - 2] = "p"
    /\ k[Len(k) - 1] = "e"
    /\ k[Len(k)] = "m"

\* C20: validateFlags succeeds exactly when the key path is empty or
\* accepted (it ends with "pem") and there is exactly one positional
\* argument; on success the options carry user, pass, dbAddr and realm
\* unchanged, path is the single argument, the key path is the one given,
\* and the key ID is copied only when the key path is not empty.
C20_ValidateFlagsShape ==
    pc # "validateFlags" =>
        /\ pc # "exited" <=>
              /\ flagsIn.keyPath = <<>> \/ EndsWithPem(flagsIn.keyPath)
              /\ Len(flagsIn.args) = 1
        /\ pc # "exited" =>
              /\ opts.user = flagsIn.cred.user
              /\ opts.pass = flagsIn.cred.pass
              /\ opts.dbAddr = flagsIn.cred.dbAddr
              /\ opts.realm = flagsIn.cred.realm
              /\ opts.path = flagsIn.args[1]
              /\ opts.keyPath = flagsIn.keyPath
              /\ opts.keyID = IF flagsIn.keyPath # <<>> THEN flagsIn.keyID ELSE ""

\* a key ID given without a key path has been discarded
C20_Witness ==
    /\ pc = "registerCollector"
    /\ flagsIn.keyPath = <<>>
    /\ flagsIn.keyID = "key1"
    /\ opts.keyID = ""
    /\ opts.path = "more"

\* C19: RecreateStream is called at most once in a run, only after the bus
\* has been initialised and only while nothing has been published and
\* neither subscriber goroutine has been started, so that it drops no
\* message of this run; when it fails the error is logged and the run
\* goes on.
C19_RecreateConfinedToSetup ==
    /\ [](calls["RecreateStream"] <= 1)
    /\ [](calls["RecreateStream"] > 0 => calls["JetStreamInit"] = 1 /\ bus # "unconnected")
    /\ []((offered > 0 \/ proc # "notStarted" \/ ing # "notStarted") =>
            calls["RecreateStream"] = 1)
    /\ [][calls'["RecreateStream"] # calls["RecreateStream"] =>
            /\ bus = "connected"
            /\ offered = 0 /\ rawTopic = <<>> /\ processedTopic = <<>>
            /\ proc = "notStarted" /\ ing = "notStarted"
            /\ pc' = "getCollectorPublish" /\ exitCode' = -1]_vars
    /\ [](Len(rawTopic) = offered - (IF failedAt # 0 THEN 1 ELSE 0))

\* the stream could not be recreated and the run has published since
C19_Witness ==
    /\ "unexpected error recreating jetstream" \in logged
    /\ Len(rawTopic) >= 1
    /\ proc = "running"

\* C12: when StoreGraph fails for a batch, the ingestor loop has returned
\* with that very error, the failed call is the last store call of the
\* run (no retry, no later batch), and one call was issued per batch.
C12_StoreFailureFailStop ==
    /\ Len(storeErrs) = Len(storeCalls)
    /\ Len(storeCalls) = Len(delivered)
    /\ \A k \in 1..Len(storeErrs) :
        storeErrs[k] # Nil =>
            /\ k = Len(storeCalls)
            /\ ing = "returned"
            /\ ingErr = storeErrs[k]
            /\ "parser ended with error" \in logged
            /\ ingNext = k + 1

\* the store of the second batch failed after the first had succeeded
C12_Witness ==
    /\ Len(storeErrs) = 2
    /\ storeErrs[1] = Nil
    /\ storeErrs[2] = "store"
    /\ Len(processedTopic) >= 2

\* the documents of the messages on the processed topic, in order
ProcessedDocs ==
    [k \in 1..Len(processedTopic) |-> Unmarshal(processedTopic[k]).root]

\* C13: until its first error the processor has published one processed
\* message per raw document it received, in the order received; after a
\* marshal or publish error the loop has returned with that error, the
\* failed document is not on the processed topic and no later document is
\* published.
C13_ProcessorFailStop ==
    /\ Len(procReceived) = procNext - 1
    /\ procErr \in {Nil, "subscribe"} => ProcessedDocs = procReceived
    /\ procErr \notin {Nil, "subscribe"} =>
          /\ procErr \in {"failed marshal of document", "publish"}
          /\ proc = "returned"
          /\ "processor ended with error" \in logged
          /\ ProcessedDocs = SubSeq(procReceived, 1, Len(procReceived) - 1)

\* the processor failed on the first document while a second one is on
\* the raw topic, and nothing has been published on the processed topic
C13_Witness ==
    /\ procErr = "publish"
    /\ procReceived = <<1>>
    /\ Len(rawTopic) = 2
    /\ processedTopic = <<>>

C14_IndexFailureFatalAtSetup ==
    idxErr # Nil =>
        /\ pc = "exited"
        /\ exitCode = 1
        /\ exitCause = "getAssembler"
        /\ idxDone # IndexPairs
        /\ assembler = "uninitialized" /\ built = 0
        /\ proc = "notStarted" /\ ing = "notStarted" /\ wg = 0
        /\ offered = 0 /\ rawTopic = <<>> /\ processedTopic = <<>>
        /\ storeCalls = <<>>
\* the third index creation fails after two succeeded
C14_Witness ==
    /\ idxErr # Nil /\ Cardinality(idxDone) = 2 /\ pc = "exited"

ErrorFreeDrained ==
    /\ pc = "wait"
    /\ failedAt = 0 /\ collectErr = Nil
    /\ procErr = Nil /\ ingErr = Nil
    /\ Len(rawTopic) = offered
    /\ procReceived = rawTopic
    /\ Len(processedTopic) = Len(rawTopic)
    /\ Len(delivered) = Len(processedTopic)
    /\ Len(storeCalls) = Len(delivered)

\* C18: an error-free run terminates. Once the collector has returned and
\* every published document is processed and stored, both subscriber loops
\* eventually return and wg.Wait unblocks, so Run returns, unless a stage
\* meets an error after all.
C18_ErrorFreeRunCompletes ==
    ErrorFreeDrained ~> (pc = "done" \/ procErr # Nil \/ ingErr # Nil)

\* the accesses of task t to variable v
AccessesOf(t, v) == {a \in accessed[t] : a[1] = v}

\* C16: the stages share no mutable state. No variable of Run is written by
\* one of the three tasks and read or written by another; in particular the
\* err of Run, which emit assigns on the main thread, is never accessed by
\* the processor or the ingestor goroutine or their transport functions.
C16_NoSharedMutableState ==
    /\ \A t1 \in Tasks, t2 \in Tasks :
          t1 # t2 =>
            \A a \in accessed[t1] : a[2] = "w" => AccessesOf(t2, a[1]) = {}
    /\ AccessesOf("processor", "err") = {}
    /\ AccessesOf("ingestor", "err") = {}
\* emit has assigned err while both transport functions have run
C16_Witness ==
    /\ <<"err", "w">> \in accessed["main"]
    /\ <<"ctx", "r">> \in accessed["processor"]
    /\ <<"assemblerFunc", "r">> \in accessed["ingestor"]
====
